---- MODULE Spec2Model ----
(***************************************************************************)
(* Model of cloud/main.js: the /authorize and /oauthCallback routes, the  *)
(* getVKData cloud function and the upsertVKUser / newVKUser pair, over a  *)
(* Parse store holding the TokenRequest, TokenStorage and User classes.    *)
(*                                                                         *)
(* Every handler is a chain of promise continuations.  One action of the   *)
(* model is one continuation: it consumes the outcome of the operation the *)
(* request is waiting for (pc names that operation), runs the code of the  *)
(* continuation and issues the next operation.  A store operation takes    *)
(* effect atomically when it completes; every store operation and every    *)
(* provider call may also fail.  createdAt is the position of a record in  *)
(* tokenStorage (strictly increasing with every insert).                   *)
(***************************************************************************)
EXTENDS Integers, Sequences, FiniteSets

\* ------------------------------------------------------------------ bounds
\* request slots: the requests that can be in flight at once
Procs == {"p1", "p2"}
ProcNo == [p \in Procs |-> IF p = "p1" THEN 1 ELSE 2]
\* requests (/oauthCallback and getVKData) started in one behaviour
MaxCalls == 2

\* ------------------------------------------------------------------ values
Undef == "undefined"
\* JavaScript falsy values among the modelled ones ("0" stands for the number 0)
Falsy == {Undef, "", "0"}
Truthy(v) == v \notin Falsy

\* the objectIds the store assigns to TokenRequest objects, in order
IdNames == <<"S1", "S2">>
ObjectId(n) == IdNames[n]
RequestIds == {ObjectId(n) : n \in 1..Len(IdNames)}

Codes == {Undef, "", "c1"}
\* a state parameter: absent, empty, the id of a TokenRequest the store has
\* assigned so far (n of them), or a string that is no id ("forged")
StateParams(n) == {Undef, "", "forged"} \cup {ObjectId(i) : i \in 1..n}
Queries(n) == [code : Codes, state : StateParams(n)]

AccessTokens == {"t1", "t2"}
\* a failed token request carries no body (httpResponse of the error callback)
AccessResponses ==
    {a \in [status : {"ok", "error"},
            access_token : {Undef} \cup AccessTokens,
            user_id : {Undef, "0", "7"}] :
        a.status = "error" => a.access_token = Undef /\ a.user_id = Undef}
NoAccess == [status |-> "none", access_token |-> Undef, user_id |-> Undef]

\* profile entries: users.get names the identifier uid or id, depending on the
\* API version, so an entry carries either one or both, with the same value
UserRecords ==
    {u \in [uid : {Undef, "0", "7", "8"}, id : {Undef, "7", "8"},
            first_name : {Undef, "Ana"}, last_name : {Undef, "Li"}] :
        u.id \in {Undef, u.uid} \/ u.uid = Undef}
UndefinedUser ==
    [uid |-> Undef, id |-> Undef, first_name |-> Undef, last_name |-> Undef]
ProfileResponses ==
    [status : {"ok"}, hasResponse : {TRUE}, response : {<<u>> : u \in UserRecords}]
    \cup {[status |-> "ok", hasResponse |-> TRUE, response |-> <<>>],
          [status |-> "ok", hasResponse |-> FALSE, response |-> <<>>],
          [status |-> "error", hasResponse |-> FALSE, response |-> <<>>]}

\* the profile responses given to getVKData, which hands the entry on unread:
\* one entry stands for all
DetailsResponses ==
    {r \in ProfileResponses :
        r.response # <<>> =>
            r.response[1] = [uid |-> "7", id |-> "7",
                             first_name |-> "Ana", last_name |-> "Li"]}
NoProfile == [status |-> "none", hasResponse |-> FALSE, response |-> <<>>]
\* no provider response was handed over in this step
NoDelivery == [to |-> "none", access |-> NoAccess, profile |-> NoProfile]

\* what /authorize has rendered before its first request
NoQuery == [v |-> Undef, response_type |-> Undef, state |-> Undef]
NoPage == [view |-> "none", query |-> NoQuery, errorMessage |-> ""]

NoTokenData ==
    [idx |-> 0, stored |-> Undef, accessToken |-> Undef, user |-> 0, dirty |-> FALSE]
NoResponse == [view |-> "none", sessionToken |-> 0, errorMessage |-> "", count |-> 0]

\* ------------------------------------------------------------------ state
VARIABLES
    tokenRequests,  \* ids of the TokenRequest objects in the store
    issued,         \* number of TokenRequest ids the store has assigned
    authorizing,    \* is an /authorize waiting for tokenRequest.save
    lastAuthorize,  \* what the latest /authorize has rendered
    users,          \* number of User objects in the store (ids 1..users)
    tokenStorage,   \* TokenStorage objects, in createdAt order
    pc,             \* per request: the operation it is waiting for
    data,           \* req.query
    token,          \* the callback's local token
    vkData,         \* the profile handed to upsertVKUser
    accessToken,    \* the token handed to upsertVKUser or getVKUserDetails
    tokenData,      \* the TokenStorage object query.first returned
    user,           \* the User newVKUser signed up
    res,            \* what the callback rendered
    trace,          \* operations of the current callback, in order
    failedAt,       \* the operation whose failure ended the callback
    calls,          \* /oauthCallback requests started so far
    overlapped,     \* did another callback run during this one
    raced,          \* did another upsert for the same vkId run during this one
    lookedUpDone,   \* states of finished callbacks that passed query.get
    destroyedDone,  \* states of finished callbacks that passed destroy
    late,           \* did the callback pass the input check with a state of those sets
    tokenCalls,     \* token-endpoint calls per state
    sessions,       \* session pages rendered per state
    returned,       \* <<uid, id, account>> of every session rendered
    delivered,      \* the provider response the last step received, and who got it
    handler,        \* per request: the handler that runs it
    requestUser,    \* request.user of a getVKData call, 0 without a user
    queries         \* getVKData calls started so far

store == <<tokenRequests, issued, users, tokenStorage>>
locals == <<data, token, vkData, accessToken, tokenData, user>>
history == <<calls, overlapped, raced, lookedUpDone, destroyedDone, late, tokenCalls,
             sessions, returned>>
cloud == <<handler, requestUser, queries>>
vars == <<tokenRequests, issued, authorizing, lastAuthorize, users, tokenStorage, pc, data,
          token, vkData, accessToken, tokenData, user, res, trace, failedAt,
          calls, overlapped, raced, lookedUpDone, destroyedDone, late, tokenCalls,
          sessions, returned, delivered, handler, requestUser, queries>>

Range(s) == {s[i] : i \in 1..Len(s)}

Init ==
    /\ tokenRequests = {}
    /\ issued = 0
    /\ authorizing = FALSE
    /\ lastAuthorize = NoPage
    /\ users = 0
    /\ tokenStorage = <<>>
    /\ pc = [p \in Procs |-> "idle"]
    /\ data = [p \in Procs |-> [code |-> Undef, state |-> Undef]]
    /\ token = [p \in Procs |-> Undef]
    /\ vkData = [p \in Procs |-> UndefinedUser]
    /\ accessToken = [p \in Procs |-> Undef]
    /\ tokenData = [p \in Procs |-> NoTokenData]
    /\ user = [p \in Procs |-> 0]
    /\ res = [p \in Procs |-> NoResponse]
    /\ trace = [p \in Procs |-> <<>>]
    /\ failedAt = [p \in Procs |-> "none"]
    /\ calls = 0
    /\ overlapped = [p \in Procs |-> FALSE]
    /\ raced = [p \in Procs |-> FALSE]
    /\ lookedUpDone = {}
    /\ destroyedDone = {}
    /\ late = [p \in Procs |-> [lookup |-> FALSE, destroy |-> FALSE]]
    /\ tokenCalls = [s \in RequestIds |-> 0]
    /\ sessions = [s \in RequestIds |-> 0]
    /\ returned = {}
    /\ delivered = NoDelivery
    /\ handler = [p \in Procs |-> "none"]
    /\ requestUser = [p \in Procs |-> 0]
    /\ queries = 0

\* ------------------------------------------------------------------ /authorize
\* a redirect that carries no state
RedirectQueryNoState(obj) == [v |-> "5.28", response_type |-> "code", state |-> Undef]

\* the query string of the redirect to the provider (lines 95-102), without
\* the fixed client_id, scope and redirect_uri
RedirectQuery(obj) == [v |-> "5.28", response_type |-> "code", state |-> obj]

\* the synchronous part of the handler (lines 80-88): tokenRequest.save
\* issued.  One /authorize is in flight at a time, and requests arrive
\* while the store has an id left to assign.
Authorize ==
    /\ ~authorizing
    /\ issued < Len(IdNames)
    /\ authorizing' = TRUE
    /\ lastAuthorize' = NoPage
    /\ delivered' = NoDelivery
    /\ UNCHANGED <<store, pc, locals, res, trace, failedAt, history, cloud>>

\* tokenRequest.save completes (lines 88-107): the redirect, or the error
\* page
AuthorizeSaveDone ==
    /\ authorizing
    /\ authorizing' = FALSE
    /\ \/ /\ issued' = issued + 1
          /\ tokenRequests' = tokenRequests \cup {ObjectId(issued + 1)}
          /\ lastAuthorize' = [view |-> "redirect",
                               query |-> RedirectQuery(ObjectId(issued + 1)),
                               errorMessage |-> ""]
       \/ /\ lastAuthorize' = [view |-> "error", query |-> NoQuery,
                               errorMessage |-> "Failed to save auth request."]
          /\ UNCHANGED <<issued, tokenRequests>>
    /\ delivered' = NoDelivery
    /\ UNCHANGED <<users, tokenStorage, pc, locals, res, trace, failedAt,
                   history, cloud>>

\* ------------------------------------------------------------------ rendering
\* what a finished callback adds to the record of consumed states
Finished(done, p, op) ==
    IF op \in Range(trace[p]) THEN done \cup {data[p].state} ELSE done

\* the locals of a handler go with the request once it has answered
DropLocals(p) ==
    /\ token' = [token EXCEPT ![p] = Undef]
    /\ vkData' = [vkData EXCEPT ![p] = UndefinedUser]
    /\ accessToken' = [accessToken EXCEPT ![p] = Undef]
    /\ tokenData' = [tokenData EXCEPT ![p] = NoTokenData]
    /\ user' = [user EXCEPT ![p] = 0]

\* The values a promise is rejected with.  A string; a Parse.Error, which
\* has a code and a message and no field named error; the httpResponse of a
\* failed httpRequest, of which the status is kept; a thrown TypeError.
StringError(s) ==
    [kind |-> "string", text |-> s, code |-> Undef, error |-> Undef]
ParseError(code, message) ==
    [kind |-> "Parse.Error", text |-> message, code |-> code, error |-> Undef]
HttpFailure ==
    [kind |-> "httpResponse", text |-> "500", code |-> Undef, error |-> Undef]
TypeErrorThrown ==
    [kind |-> "TypeError", text |-> "", code |-> Undef, error |-> Undef]
ConnectionFailed == ParseError("100", "connection failed")
NotFoundForGet == ParseError("101", "object not found for get")
NotFoundForDelete == ParseError("101", "object not found for delete")

\* JSON.stringify of such a value: a string in quotes, an object with its
\* own enumerable fields, {} for an Error
Stringify(e) ==
    CASE e.kind = "string" -> "\"" \o e.text \o "\""
      [] e.kind = "Parse.Error" ->
            "{\"code\":" \o e.code \o ",\"message\":\"" \o e.text \o "\"}"
      [] e.kind = "httpResponse" -> "{\"status\":" \o e.text \o "}"
      [] e.kind = "TypeError" -> "{}"

\* the text the rejection handler renders (lines 179-182): code and error
\* joined when the value has both, then JSON.stringify
ErrorMessage(error) ==
    IF Truthy(error.code) /\ Truthy(error.error)
    THEN Stringify(StringError(error.code \o " " \o error.error))
    ELSE Stringify(error)

\* the text response.error hands to the caller (lines 208, 224): a string as
\* it is, another value in its JSON form
FunctionErrorMessage(error) ==
    IF error.kind = "string" THEN error.text ELSE Stringify(error)

\* a request ends with an error page or an error response carrying msg
EndInError(p, msg) ==
    /\ res' = [res EXCEPT ![p] = [view |-> "error", sessionToken |-> 0,
                                   errorMessage |-> msg, count |-> @.count + 1]]
    /\ failedAt' = [failedAt EXCEPT ![p] = pc[p]]
    /\ pc' = [pc EXCEPT ![p] = "done"]
    /\ lookedUpDone' = Finished(lookedUpDone, p, "get")
    /\ destroyedDone' = Finished(destroyedDone, p, "destroy")
    /\ DropLocals(p)
    /\ UNCHANGED <<trace, calls, overlapped, raced, late, tokenCalls, sessions,
                   returned>>

\* res.render('error', ...) from the rejection handler (lines 174-183)
RenderError(p, error) == EndInError(p, ErrorMessage(error))

\* res.render('store_auth', ...) with the session token of user u (line 173)
RenderSession(p, u) ==
    /\ res' = [res EXCEPT ![p] = [view |-> "store_auth", sessionToken |-> u,
                                   errorMessage |-> "", count |-> @.count + 1]]
    /\ pc' = [pc EXCEPT ![p] = "done"]
    /\ trace' = [trace EXCEPT ![p] = @ \o <<"save", "render">>]
    /\ lookedUpDone' = Finished(lookedUpDone, p, "get")
    /\ destroyedDone' = Finished(destroyedDone, p, "destroy")
    /\ sessions' = [sessions EXCEPT ![data[p].state] = @ + 1]
    /\ returned' = returned \cup {<<vkData[p].uid, vkData[p].id, u>>}
    /\ DropLocals(p)
    /\ UNCHANGED <<failedAt, calls, overlapped, raced, late, tokenCalls>>

\* a continuation that issues the next operation
Step(p, next, ops) ==
    /\ pc' = [pc EXCEPT ![p] = next]
    /\ trace' = [trace EXCEPT ![p] = @ \o ops]
    /\ UNCHANGED <<res, failedAt, history>>

\* ------------------------------------------------------------------ /oauthCallback
\* the input check with the test of state left out
ValidQueryCodeOnly(q) == Truthy(q.code)

\* the input check of line 127
ValidQuery(q) == Truthy(q.code) /\ Truthy(q.state)

\* The requests in flight are told apart by the slot they occupy; a new
\* request takes the first free slot.
Free(p) == pc[p] \in {"idle", "done", "aborted"}
FirstFree(p) == Free(p) /\ \A q \in Procs : Free(q) => ProcNo[p] <= ProcNo[q]

\* the synchronous part of the handler (lines 120-138): the input check, and
\* query.get issued
StartCallback(p) ==
    /\ FirstFree(p)
    /\ calls + queries < MaxCalls
    /\ \E q \in Queries(issued) :
        /\ data' = [data EXCEPT ![p] = q]
        /\ calls' = calls + 1
        /\ handler' = [handler EXCEPT ![p] = "/oauthCallback"]
        /\ requestUser' = [requestUser EXCEPT ![p] = 0]
        /\ overlapped' = [r \in Procs |->
                            IF r = p THEN \E o \in Procs : ~Free(o)
                            ELSE overlapped[r] \/ ~Free(r)]
        /\ raced' = [raced EXCEPT ![p] = FALSE]
        /\ late' = [late EXCEPT ![p] =
                      [lookup |-> ValidQuery(q) /\ q.state \in lookedUpDone,
                       destroy |-> ValidQuery(q) /\ q.state \in destroyedDone]]
        /\ trace' = [trace EXCEPT ![p] = <<>>]
        /\ IF ValidQuery(q)
           THEN /\ pc' = [pc EXCEPT ![p] = "get"]
                /\ res' = [res EXCEPT ![p] = NoResponse]
                /\ failedAt' = [failedAt EXCEPT ![p] = "none"]
           ELSE /\ pc' = [pc EXCEPT ![p] = "done"]
                /\ res' = [res EXCEPT ![p] =
                            [view |-> "error", sessionToken |-> 0,
                             errorMessage |-> "Invalid auth response received.",
                             count |-> 1]]
                /\ failedAt' = [failedAt EXCEPT ![p] = "input"]
    /\ delivered' = NoDelivery
    /\ UNCHANGED <<store, lastAuthorize, token, vkData, accessToken, tokenData,
                   user, lookedUpDone, destroyedDone, tokenCalls, sessions,
                   returned, queries, authorizing>>

\* a lookup that resolves for every id
GetFindsAlways(id) == TRUE

\* query.get(data.state) resolves only for an object of the store (line 138)
GetFinds(id) == id \in tokenRequests

\* a lookup whose continuation calls the token endpoint at once, with the
\* destroy left out
GetDoneNoDestroy(p) ==
    /\ pc[p] = "get"
    /\ \/ /\ GetFinds(data[p].state)
          /\ Step(p, "token", <<"get", "getVKAccessToken">>)
          /\ UNCHANGED <<token, vkData, accessToken, tokenData, user>>
       \/ /\ ~GetFinds(data[p].state)
          /\ RenderError(p, NotFoundForGet)
    /\ delivered' = NoDelivery
    /\ UNCHANGED <<cloud, authorizing>>
    /\ UNCHANGED <<store, lastAuthorize, data>>

\* query.get completes; its continuation issues obj.destroy (lines 138-141)
GetDone(p) ==
    /\ pc[p] = "get"
    /\ \/ /\ GetFinds(data[p].state)
          /\ Step(p, "destroy", <<"get">>)
          /\ UNCHANGED <<token, vkData, accessToken, tokenData, user>>
       \/ /\ ~GetFinds(data[p].state)
          /\ RenderError(p, NotFoundForGet)
       \/ RenderError(p, ConnectionFailed)
    /\ delivered' = NoDelivery
    /\ UNCHANGED <<cloud, authorizing>>
    /\ UNCHANGED <<store, lastAuthorize, data>>

\* a delete that also resolves for an object that is gone
DestroyFindsAlways(id) == TRUE

\* obj.destroy() resolves only for an object that is still in the store: the
\* store rejects the delete of an object that is gone (line 141)
DestroyFinds(id) == id \in tokenRequests

\* the TokenRequest objects left by obj.destroy() (line 141)
Destroyed(id) == tokenRequests \ {id}

\* obj.destroy completes; its continuation calls getVKAccessToken
\* (lines 141-144)
DestroyDone(p) ==
    /\ pc[p] = "destroy"
    /\ \/ /\ DestroyFinds(data[p].state)
          /\ tokenRequests' = Destroyed(data[p].state)
          /\ pc' = [pc EXCEPT ![p] = "token"]
          /\ trace' = [trace EXCEPT ![p] = @ \o <<"destroy", "getVKAccessToken">>]
          /\ tokenCalls' = [tokenCalls EXCEPT ![data[p].state] = @ + 1]
          /\ UNCHANGED <<res, failedAt, calls, overlapped, raced, lookedUpDone,
                         destroyedDone, late, sessions, returned, token, vkData,
                         accessToken, tokenData, user>>
       \/ /\ ~DestroyFinds(data[p].state)
          /\ RenderError(p, NotFoundForDelete)
          /\ UNCHANGED tokenRequests
       \/ /\ RenderError(p, ConnectionFailed)
          /\ UNCHANGED tokenRequests
    /\ delivered' = NoDelivery
    /\ UNCHANGED <<cloud, authorizing>>
    /\ UNCHANGED <<issued, users, tokenStorage, lastAuthorize, data>>

\* the token response taken without a check
ValidAccessUnchecked(access) == TRUE

\* a check that asks for the access token only
ValidAccessTokenOnly(access) == Truthy(access.access_token)

\* the check of line 151
ValidAccess(access) == Truthy(access.access_token) /\ Truthy(access.user_id)

\* the token request completes; its continuation calls getVKUserDetails
\* (lines 145-156)
TokenDone(p) ==
    /\ pc[p] = "token"
    /\ \E access \in AccessResponses :
        /\ delivered' = [to |-> p, access |-> access, profile |-> NoProfile]
        /\ \/ /\ access.status = "error"
              /\ RenderError(p, HttpFailure)
           \/ /\ access.status = "ok"
              /\ ValidAccess(access)
              /\ token' = [token EXCEPT ![p] = access.access_token]
              /\ Step(p, "profile", <<"getVKUserDetails">>)
              /\ UNCHANGED <<vkData, accessToken, tokenData, user>>
           \/ /\ access.status = "ok"
              /\ ~ValidAccess(access)
              /\ RenderError(p, StringError("Invalid access request."))
    /\ UNCHANGED <<cloud, authorizing>>
    /\ UNCHANGED <<store, lastAuthorize, data>>

\* userDataResponse.data.response[0] (line 162): undefined for an empty list
UserData(r) == IF r.response = <<>> THEN UndefinedUser ELSE r.response[1]

\* the check of line 163
ValidUserData(u) ==
    Truthy(u.first_name) /\ Truthy(u.last_name) /\ Truthy(u.uid)

\* the value query.equalTo('vkId', ...) filters on (line 273).  An undefined
\* value matches the objects that store no vkId.
LinkKey(vk) == vk.id

\* a link stored under the uid the callback checked
StoredKeyUid(vk) == vk.uid

\* the value ts.set('vkId', ...) stores (line 322).  An undefined value stores
\* no vkId.
StoredKey(vk) == vk.id

\* is request o inside upsertVKUser for the vkId of profile vk
InUpsert(o) == pc[o] \in {"first", "signUp", "tsSave", "fetch", "save"}
Races(o, vk) == InUpsert(o) /\ LinkKey(vkData[o]) = LinkKey(vk)

\* the profile request completes; its continuation calls upsertVKUser, which
\* issues query.first (lines 157-167, 271-276).  Without a response list
\* line 162 throws: a promise implementation that catches it rejects with the
\* TypeError, one that does not leaves the request without a response.
ProfileDone(p) ==
    /\ pc[p] = "profile"
    /\ \E r \in ProfileResponses :
        /\ delivered' = [to |-> p, access |-> NoAccess, profile |-> r]
        /\ \/ /\ r.status = "error"
              /\ RenderError(p, HttpFailure)
           \/ /\ r.status = "ok"
              /\ ~r.hasResponse
              /\ RenderError(p, TypeErrorThrown)
           \/ /\ r.status = "ok"
              /\ ~r.hasResponse
              /\ pc' = [pc EXCEPT ![p] = "aborted"]
              /\ failedAt' = [failedAt EXCEPT ![p] = "profile"]
              /\ lookedUpDone' = Finished(lookedUpDone, p, "get")
              /\ destroyedDone' = Finished(destroyedDone, p, "destroy")
              /\ DropLocals(p)
              /\ UNCHANGED <<res, trace, calls, overlapped, raced, late, tokenCalls,
                             sessions, returned>>
           \/ /\ r.status = "ok"
              /\ r.hasResponse
              /\ ValidUserData(UserData(r))
              /\ vkData' = [vkData EXCEPT ![p] = UserData(r)]
              /\ accessToken' = [accessToken EXCEPT ![p] = token[p]]
              /\ pc' = [pc EXCEPT ![p] = "first"]
              /\ trace' = [trace EXCEPT ![p] = @ \o <<"upsertVKUser">>]
              /\ raced' = [o \in Procs |->
                     IF o = p THEN \E q \in Procs \ {p} : Races(q, UserData(r))
                     ELSE raced[o] \/ Races(o, UserData(r))]
              /\ UNCHANGED <<res, failedAt, calls, overlapped, lookedUpDone,
                             destroyedDone, late, tokenCalls, sessions, returned,
                             token, tokenData, user>>
           \/ /\ r.status = "ok"
              /\ r.hasResponse
              /\ ~ValidUserData(UserData(r))
              /\ RenderError(p, StringError("Unable to parse VK data"))
    /\ UNCHANGED <<cloud, authorizing>>
    /\ UNCHANGED <<store, lastAuthorize, data>>

\* ------------------------------------------------------------------ upsertVKUser
\* a query sorted the other way round: the newest object first
NewestLink(key) ==
    LET hits == {i \in 1..Len(tokenStorage) : tokenStorage[i].vkId = key}
    IN  IF hits = {} THEN 0 ELSE CHOOSE i \in hits : \A j \in hits : i >= j

\* query.first with ascending('createdAt') (lines 272-276): the position of
\* the oldest TokenStorage object with that vkId, 0 when there is none
OldestLink(key) ==
    LET hits == {i \in 1..Len(tokenStorage) : tokenStorage[i].vkId = key}
    IN  IF hits = {} THEN 0 ELSE CHOOSE i \in hits : \A j \in hits : i <= j

\* a comparison that never sees a new token
TokenDiffersNever(tok, stored) == FALSE

\* the comparison of line 285
TokenDiffers(tok, stored) == tok # stored

\* a save that sends its request whether or not a field changed
SaveWritesAlways(td) == TRUE

\* tokenData.save sends a request only for an object with a changed field
\* (lines 288-292)
SaveWrites(td) == td.dirty

\* query.first completes (lines 276-283): newVKUser signs a user up when
\* nothing was found, else the user of the found object is fetched
FirstDone(p) ==
    /\ pc[p] = "first"
    /\ \/ /\ OldestLink(LinkKey(vkData[p])) = 0
          /\ Step(p, "signUp", <<"first", "newVKUser">>)
          /\ UNCHANGED <<token, vkData, accessToken, tokenData, user>>
       \/ /\ OldestLink(LinkKey(vkData[p])) # 0
          /\ LET i == OldestLink(LinkKey(vkData[p])) IN
             tokenData' = [tokenData EXCEPT ![p] =
                 [idx |-> i, stored |-> tokenStorage[i].accessToken,
                  accessToken |-> tokenStorage[i].accessToken,
                  user |-> tokenStorage[i].user, dirty |-> FALSE]]
          /\ Step(p, "fetch", <<"first">>)
          /\ UNCHANGED <<token, vkData, accessToken, user>>
       \/ RenderError(p, ConnectionFailed)
    /\ delivered' = NoDelivery
    /\ UNCHANGED <<cloud, authorizing>>
    /\ UNCHANGED <<store, lastAuthorize, data>>

\* user.signUp completes; its continuation saves the TokenStorage object
\* (lines 319-329)
SignUpDone(p) ==
    /\ pc[p] = "signUp"
    /\ \/ /\ users' = users + 1
          /\ user' = [user EXCEPT ![p] = users + 1]
          /\ Step(p, "tsSave", <<"signUp">>)
          /\ UNCHANGED <<token, vkData, accessToken, tokenData>>
       \/ /\ RenderError(p, ConnectionFailed)
          /\ UNCHANGED users
    /\ delivered' = NoDelivery
    /\ UNCHANGED <<cloud, authorizing>>
    /\ UNCHANGED <<tokenRequests, issued, tokenStorage, lastAuthorize, data>>

\* a continuation of ts.save that resolves with the user just signed up
LinkSavedReturnsNew(p) == RenderSession(p, user[p])

\* the continuation of ts.save (lines 330-332): upsertVKUser runs again
LinkSaved(p) ==
    /\ Step(p, "first", <<"tsSave", "upsertVKUser">>)
    /\ UNCHANGED <<token, vkData, accessToken, tokenData, user>>

\* ts.save completes (lines 321-332)
TsSaveDone(p) ==
    /\ pc[p] = "tsSave"
    /\ \/ /\ tokenStorage' = Append(tokenStorage,
                [vkId |-> StoredKey(vkData[p]),
                 vkFirstName |-> vkData[p].first_name,
                 vkLastName |-> vkData[p].last_name,
                 accessToken |-> accessToken[p],
                 user |-> user[p],
                 updates |-> 0])
          /\ LinkSaved(p)
       \/ /\ RenderError(p, ConnectionFailed)
          /\ UNCHANGED tokenStorage
    /\ delivered' = NoDelivery
    /\ UNCHANGED <<cloud, authorizing>>
    /\ UNCHANGED <<tokenRequests, issued, users, lastAuthorize, data>>

\* user.fetch completes; its continuation sets the token when it differs and
\* calls tokenData.save (lines 283-292)
FetchDone(p) ==
    /\ pc[p] = "fetch"
    /\ \/ /\ tokenData' = [tokenData EXCEPT ![p] =
                IF TokenDiffers(accessToken[p], @.accessToken)
                THEN [@ EXCEPT !.accessToken = accessToken[p], !.dirty = TRUE]
                ELSE @]
          /\ Step(p, "save", <<"fetch">>)
          /\ UNCHANGED <<token, vkData, accessToken, user>>
       \/ RenderError(p, ConnectionFailed)
    /\ delivered' = NoDelivery
    /\ UNCHANGED <<cloud, authorizing>>
    /\ UNCHANGED <<store, lastAuthorize, data>>

\* tokenData.save completes; upsertVKUser resolves with the user and the
\* callback renders the session page (lines 292-296, 168-173)
SaveDone(p) ==
    /\ pc[p] = "save"
    /\ \/ /\ tokenStorage' =
                IF SaveWrites(tokenData[p])
                THEN [tokenStorage EXCEPT ![tokenData[p].idx] =
                        [@ EXCEPT !.accessToken = tokenData[p].accessToken,
                                  !.updates = @ + 1]]
                ELSE tokenStorage
          /\ RenderSession(p, tokenData[p].user)
       \/ /\ SaveWrites(tokenData[p])
          /\ RenderError(p, ConnectionFailed)
          /\ UNCHANGED tokenStorage
    /\ delivered' = NoDelivery
    /\ UNCHANGED <<cloud, authorizing>>
    /\ UNCHANGED <<tokenRequests, issued, users, lastAuthorize, data>>

\* ------------------------------------------------------------------ getVKData
NoQueryParams == [code |-> Undef, state |-> Undef]

\* response.error(...) (lines 208, 224)
ResponseError(p, error) == EndInError(p, FunctionErrorMessage(error))

\* response.success(userData) (line 222)
ResponseSuccess(p) ==
    /\ res' = [res EXCEPT ![p] = [view |-> "success", sessionToken |-> 0,
                                   errorMessage |-> "", count |-> @.count + 1]]
    /\ pc' = [pc EXCEPT ![p] = "done"]
    /\ DropLocals(p)
    /\ UNCHANGED <<trace, failedAt, history>>

\* the synchronous part of the function (lines 206-214): the check of
\* request.user, and query.first issued
GetVKData(p) ==
    /\ FirstFree(p)
    /\ calls + queries < MaxCalls
    /\ \E u \in 0..users :
        /\ requestUser' = [requestUser EXCEPT ![p] = u]
        /\ IF u = 0
           THEN /\ pc' = [pc EXCEPT ![p] = "done"]
                /\ res' = [res EXCEPT ![p] =
                            [view |-> "error", sessionToken |-> 0,
                             errorMessage |-> "Must be logged in.",
                             count |-> 1]]
                /\ failedAt' = [failedAt EXCEPT ![p] = "user"]
           ELSE /\ pc' = [pc EXCEPT ![p] = "vkFirst"]
                /\ res' = [res EXCEPT ![p] = NoResponse]
                /\ failedAt' = [failedAt EXCEPT ![p] = "none"]
    /\ queries' = queries + 1
    /\ handler' = [handler EXCEPT ![p] = "getVKData"]
    /\ data' = [data EXCEPT ![p] = NoQueryParams]
    /\ trace' = [trace EXCEPT ![p] = <<>>]
    /\ overlapped' = [overlapped EXCEPT ![p] = FALSE]
    /\ raced' = [raced EXCEPT ![p] = FALSE]
    /\ late' = [late EXCEPT ![p] = [lookup |-> FALSE, destroy |-> FALSE]]
    /\ delivered' = NoDelivery
    /\ UNCHANGED <<store, lastAuthorize, token, vkData, accessToken, tokenData,
                   user, calls, lookedUpDone, destroyedDone, tokenCalls, sessions,
                   returned, authorizing>>

\* the vkId read in place of the accessToken
StoredTokenVkId(td) == td.vkId

\* tokenData.get('accessToken') (line 219)
StoredToken(td) == td.accessToken

\* query.first with equalTo('user', request.user) and ascending('createdAt')
\* (lines 210-214): the position of the oldest TokenStorage object of that
\* user, 0 when there is none
OldestLinkOf(u) ==
    LET hits == {i \in 1..Len(tokenStorage) : tokenStorage[i].user = u}
    IN  IF hits = {} THEN 0 ELSE CHOOSE i \in hits : \A j \in hits : i <= j

\* query.first completes; its continuation calls getVKUserDetails with the
\* accessToken of the object found (lines 214-219)
VKFirstDone(p) ==
    /\ pc[p] = "vkFirst"
    /\ \/ /\ OldestLinkOf(requestUser[p]) = 0
          /\ ResponseError(p, StringError("No VK data found."))
       \/ /\ OldestLinkOf(requestUser[p]) # 0
          /\ LET i == OldestLinkOf(requestUser[p]) IN
             tokenData' = [tokenData EXCEPT ![p] =
                 [idx |-> i, stored |-> tokenStorage[i].accessToken,
                  accessToken |-> tokenStorage[i].accessToken,
                  user |-> tokenStorage[i].user, dirty |-> FALSE]]
          /\ accessToken' = [accessToken EXCEPT ![p] =
                StoredToken(tokenStorage[OldestLinkOf(requestUser[p])])]
          /\ Step(p, "vkDetails", <<"first", "getVKUserDetails">>)
          /\ UNCHANGED <<token, vkData, user>>
       \/ ResponseError(p, ConnectionFailed)
    /\ delivered' = NoDelivery
    /\ UNCHANGED <<cloud, authorizing>>
    /\ UNCHANGED <<store, lastAuthorize, data>>

\* the profile request completes (lines 220-225).  Without a response list
\* line 221 throws, with the two outcomes of line 162.
VKDetailsDone(p) ==
    /\ pc[p] = "vkDetails"
    /\ \E r \in DetailsResponses :
        /\ delivered' = [to |-> p, access |-> NoAccess, profile |-> r]
        /\ \/ /\ r.status = "error"
              /\ ResponseError(p, HttpFailure)
           \/ /\ r.status = "ok"
              /\ ~r.hasResponse
              /\ ResponseError(p, TypeErrorThrown)
           \/ /\ r.status = "ok"
              /\ ~r.hasResponse
              /\ pc' = [pc EXCEPT ![p] = "aborted"]
              /\ failedAt' = [failedAt EXCEPT ![p] = "vkDetails"]
              /\ DropLocals(p)
              /\ UNCHANGED <<res, trace, history>>
           \/ /\ r.status = "ok"
              /\ r.hasResponse
              /\ ResponseSuccess(p)
    /\ UNCHANGED <<cloud, authorizing>>
    /\ UNCHANGED <<store, lastAuthorize, data>>

Next ==
    \/ Authorize
    \/ AuthorizeSaveDone
    \/ \E p \in Procs :
        \/ StartCallback(p)
        \/ GetDone(p)
        \/ DestroyDone(p)
        \/ TokenDone(p)
        \/ ProfileDone(p)
        \/ FirstDone(p)
        \/ SignUpDone(p)
        \/ TsSaveDone(p)
        \/ FetchDone(p)
        \/ SaveDone(p)
        \/ GetVKData(p)
        \/ VKFirstDone(p)
        \/ VKDetailsDone(p)

Spec == Init /\ [][Next]_vars

\* Every store operation and every provider call completes, with a result or
\* a failure: the continuation of a pending operation eventually runs.  New
\* requests need not arrive.
Completion(p) ==
    \/ GetDone(p)
    \/ DestroyDone(p)
    \/ TokenDone(p)
    \/ ProfileDone(p)
    \/ FirstDone(p)
    \/ SignUpDone(p)
    \/ TsSaveDone(p)
    \/ FetchDone(p)
    \/ SaveDone(p)
    \/ VKFirstDone(p)
    \/ VKDetailsDone(p)

FairSpec ==
    Spec /\ WF_vars(AuthorizeSaveDone) /\ \A p \in Procs : WF_vars(Completion(p))

\* ------------------------------------------------------------------ properties
\* the error kinds of the callback, by the step that raised them
InvalidRequest(p) ==
    res[p].view = "error" /\ res[p].errorMessage = "Invalid auth response received."
InvalidOrExpiredState(p) ==
    res[p].view = "error" /\ failedAt[p] \in {"get", "destroy"}

\* a query that carries a non-empty code and a non-empty state
Present(v) == v # Undef /\ v # ""
CodeAndState(q) == Present(q.code) /\ Present(q.state)
\* a callback that is past the profile check, inside upsertVKUser
Upserting(p) == pc[p] \in {"first", "signUp", "tsSave", "fetch", "save"}

ProviderCalls == {"getVKAccessToken", "getVKUserDetails"}
Creations == {"signUp", "tsSave"}
Quiet(p) == Range(trace[p]) \cap (ProviderCalls \cup Creations) = {}

\* the oldest link stored for an external id, 0 when there is none
CanonicalLink(id) ==
    LET hits == {i \in 1..Len(tokenStorage) : tokenStorage[i].vkId = id}
    IN  IF hits = {} THEN 0 ELSE CHOOSE i \in hits : \A j \in hits : i <= j

\* C1 as stated: once a callback carrying state S has finished after its
\* state lookup, every later callback with state S ends in
\* InvalidOrExpiredState, calls no provider and creates nothing, and at most
\* one callback per state renders a session.
C1_AfterLookup ==
    /\ \A p \in Procs :
          late[p].lookup =>
              /\ Quiet(p)
              /\ pc[p] = "done" => InvalidOrExpiredState(p)
    /\ \A s \in RequestIds : sessions[s] <= 1

\* C2: of the callbacks carrying one state at most one gets past the state
\* lookup and destroy and calls the token endpoint, under every interleaving;
\* every other one ends in InvalidOrExpiredState.
C2_OneConsumer ==
    /\ \A s \in RequestIds : tokenCalls[s] <= 1
    /\ \A p, q \in Procs :
          (p # q /\ ~Free(p) /\ ~Free(q) /\ data[p].state = data[q].state)
              => ~("destroy" \in Range(trace[p]) /\ "destroy" \in Range(trace[q]))
    /\ \A p \in Procs :
          (pc[p] = "done" /\ CodeAndState(data[p]) /\ "destroy" \notin Range(trace[p]))
              => InvalidOrExpiredState(p)

C2_Witness ==
    \E p, q \in Procs :
        /\ p # q
        /\ data[p].state = data[q].state
        /\ pc[p] \in {"token", "profile", "first"}
        /\ pc[q] = "done"
        /\ failedAt[q] = "destroy"
        /\ res[q].errorMessage =
              "{\"code\":101,\"message\":\"object not found for delete\"}"

\* C3: every upsert that returns returns the Account of the oldest link
\* stored for its external id, whatever the interleaving.
C3_Convergence ==
    \A r \in returned :
        /\ CanonicalLink(r[2]) # 0
        /\ r[3] = tokenStorage[CanonicalLink(r[2])].user

C3_Witness ==
    /\ Len(tokenStorage) = 2
    /\ tokenStorage[1].vkId = tokenStorage[2].vkId
    /\ \A p \in Procs :
          /\ pc[p] = "done"
          /\ raced[p]
          /\ res[p].view = "store_auth"
          /\ res[p].sessionToken = tokenStorage[1].user

\* C4: two sessions rendered for profiles with different uid belong to
\* different Accounts.
C4_Separation ==
    \A a, b \in returned : a[1] # b[1] => a[3] # b[3]

\* C5: a first login that runs alone returns a session and leaves exactly one
\* new Account and one new link, whose vkId is the profile's uid and whose
\* accessToken is the exchanged token.
C5_FirstLogin ==
    [][\A p \in Procs :
        (/\ pc[p] = "save"
         /\ res'[p].view = "store_auth"
         /\ ~overlapped[p]
         /\ \A i \in 1..Len(tokenStorage) :
               tokenStorage[i].user # user[p] => tokenStorage[i].vkId # vkData[p].uid)
        => /\ user[p] # 0
           /\ Cardinality({i \in 1..Len(tokenStorage') :
                              tokenStorage'[i].user = user[p]}) = 1
           /\ \A i \in 1..Len(tokenStorage') :
                 tokenStorage'[i].user = user[p] =>
                     /\ tokenStorage'[i].vkId = vkData[p].uid
                     /\ tokenStorage'[i].accessToken = token[p]]_vars

\* C6: a callback without a non-empty code and state renders InvalidRequest
\* at once: no store operation or provider call is issued and the store is
\* left as it was.
C6_InputCheck ==
    [][\A p \in Procs :
        (FirstFree(p) /\ calls' = calls + 1 /\ ~CodeAndState(data'[p]))
        => /\ pc'[p] = "done"
           /\ res'[p].view = "error"
           /\ res'[p].errorMessage = "Invalid auth response received."
           /\ res'[p].count = 1
           /\ trace'[p] = <<>>
           /\ store' = store]_vars

C6_Witness ==
    \E p \in Procs :
        /\ pc[p] = "done"
        /\ failedAt[p] = "input"
        /\ InvalidRequest(p)
        /\ data[p].code = "c1"
        /\ data[p].state = ""
        /\ tokenRequests # {}

\* the operations of a callback that rendered a session
FoundRun ==
    <<"get", "destroy", "getVKAccessToken", "getVKUserDetails", "upsertVKUser",
      "first", "fetch", "save", "render">>
CreatedRun ==
    <<"get", "destroy", "getVKAccessToken", "getVKUserDetails", "upsertVKUser",
      "first", "newVKUser", "signUp", "tsSave", "upsertVKUser", "first", "fetch",
      "save", "render">>

\* C7: a session is rendered only by a callback in which the input check,
\* the state lookup and destroy, the token exchange, the profile fetch and
\* the upsert all succeeded; a callback that failed renders no session; a
\* callback renders at most once.
C7_SessionOnlyOnSuccess ==
    \A p \in Procs :
        /\ res[p].count <= 1
        /\ res[p].view = "store_auth" =>
              /\ CodeAndState(data[p])
              /\ trace[p] \in {FoundRun, CreatedRun}
              /\ failedAt[p] = "none"
              /\ res[p].sessionToken \in 1..users
        /\ failedAt[p] # "none" => res[p].view # "store_auth"
        /\ pc[p] \in {"profile", "first", "signUp", "tsSave", "fetch", "save"}
              => token[p] \in AccessTokens
        /\ Upserting(p) =>
              /\ accessToken[p] = token[p]
              /\ vkData[p].first_name \notin Falsy
              /\ vkData[p].last_name \notin Falsy
              /\ vkData[p].uid \notin Falsy

C7_Witness ==
    \E p, q \in Procs :
        /\ pc[p] = "done"
        /\ res[p].view = "store_auth"
        /\ pc[q] = "done"
        /\ failedAt[q] = "tsSave"
        /\ res[q].view = "error"

\* C8: an upsert that finds a link, with another token than the stored one
\* or the same, and with no concurrent upsert for that vkId, returns the
\* Account every earlier upsert for that vkId returned, creates nothing and
\* leaves the link's accessToken equal to the supplied token.
C8_TokenRefresh ==
    [][\A p \in Procs :
        (pc[p] = "save" /\ res'[p].view = "store_auth" /\ ~raced[p])
        => /\ tokenStorage'[tokenData[p].idx].accessToken = accessToken[p]
           /\ Len(tokenStorage') = Len(tokenStorage)
           /\ users' = users
           /\ user[p] # 0 => tokenStorage[tokenData[p].idx].user = user[p]
           /\ \A r \in returned :
                 r[2] = vkData[p].id => r[3] = res'[p].sessionToken]_vars

C8_Witness ==
    \E p \in Procs :
        /\ pc[p] = "done"
        /\ res[p].view = "store_auth"
        /\ ~raced[p]
        /\ "signUp" \notin Range(trace[p])
        /\ \E i \in 1..Len(tokenStorage) :
              /\ tokenStorage[i].user = res[p].sessionToken
              /\ tokenStorage[i].updates = 1
              /\ tokenStorage[i].accessToken = "t2"

C10_AccountLink ==
    (\A p \in Procs : ~Upserting(p)) =>
        /\ \A u \in 1..users :
              Cardinality({i \in 1..Len(tokenStorage) : tokenStorage[i].user = u}) = 1
        /\ \A i \in 1..Len(tokenStorage) : tokenStorage[i].user \in 1..users

\* C11: a callback that ended in an error created no Account and no link:
\* neither user.signUp nor ts.save of that callback took effect.
C11_NoPartialState ==
    \A p \in Procs :
        res[p].view = "error" => Range(trace[p]) \cap Creations = {}

TokenExchangeFailed(p) == res[p].view = "error" /\ failedAt[p] = "token"
\* a token response that carries an access token and a user identifier
Complete(access) ==
    access.status = "ok" /\ Present(access.access_token) /\ Present(access.user_id)

\* C12: a callback whose token request failed, or whose token response lacks
\* the access token or the user identifier, ends in TokenExchangeFailed
\* without a profile call and without an upsert, and the store is as the
\* destroy left it.
C12_TokenCheck ==
    \A p \in Procs :
        (delivered.to = p /\ ~Complete(delivered.access)
                          /\ delivered.access # NoAccess) =>
            /\ pc[p] = "done"
            /\ TokenExchangeFailed(p)
            /\ res[p].count = 1
            /\ trace[p] = <<"get", "destroy", "getVKAccessToken">>

C12_Witness ==
    \E p \in Procs :
        /\ delivered.to = p
        /\ delivered.access.status = "ok"
        /\ delivered.access.access_token = "t1"
        /\ delivered.access.user_id = Undef
        /\ res[p].errorMessage = "\"Invalid access request.\""
        /\ pc[p] = "done"

ProfileFetchFailed(p) == res[p].view = "error" /\ failedAt[p] = "profile"
\* a profile response with an entry that carries the three fields
HasProfile(r) ==
    /\ r.status = "ok"
    /\ r.hasResponse
    /\ r.response # <<>>
    /\ Present(r.response[1].first_name)
    /\ Present(r.response[1].last_name)
    /\ Present(r.response[1].uid)

\* C13: a callback whose profile response lacks first name, last name or
\* external id, or carries no entry at all, ends in ProfileFetchFailed,
\* rendered to the caller, and never enters upsertVKUser.
C13_ProfileCheck ==
    \A p \in Procs :
        (handler[p] = "/oauthCallback" /\ delivered.to = p
             /\ delivered.profile # NoProfile /\ ~HasProfile(delivered.profile)) =>
            /\ ProfileFetchFailed(p)
            /\ res[p].count = 1
            /\ "upsertVKUser" \notin Range(trace[p])

IssuedIds == {ObjectId(i) : i \in 1..issued}

\* C14: an /authorize whose save succeeds adds exactly one TokenRequest,
\* with an id that was never issued before, and redirects with response
\* type code and state equal to that id; one whose save fails renders the
\* error page without a redirect and leaves the TokenRequest objects as
\* they were; no other step adds a TokenRequest or issues an id.
C14_Issuance ==
    [][/\ (authorizing /\ ~authorizing') =>
             \/ /\ lastAuthorize'.view = "redirect"
                /\ lastAuthorize'.query.response_type = "code"
                /\ \E id \in RequestIds \ IssuedIds :
                      /\ id \notin tokenRequests
                      /\ tokenRequests' = tokenRequests \cup {id}
                      /\ IssuedIds' = IssuedIds \cup {id}
                      /\ lastAuthorize'.query.state = id
             \/ /\ lastAuthorize'.view = "error"
                /\ lastAuthorize'.query.state = Undef
                /\ tokenRequests' = tokenRequests
                /\ IssuedIds' = IssuedIds
       /\ ~(authorizing /\ ~authorizing') =>
             /\ tokenRequests' \subseteq tokenRequests
             /\ IssuedIds' = IssuedIds
             /\ lastAuthorize'.view = "none" \/ lastAuthorize' = lastAuthorize]_vars

C14_Witness ==
    /\ lastAuthorize.view = "redirect"
    /\ lastAuthorize.query.state = "S2"
    /\ tokenRequests = {"S2"}
    /\ "S1" \in destroyedDone

\* the links that reference Account u, by position
LinksOf(u) == {i \in 1..Len(tokenStorage) : tokenStorage[i].user = u}
NotLinked(p) == res[p].view = "error" /\ failedAt[p] = "vkFirst"

\* C15: a getVKData call without a user ends in an error with no operation
\* issued; the link lookup of a caller whose Account has no link ends in
\* NotLinked without a profile call; when the Account has links the profile
\* call carries the accessToken stored in the oldest of them, unless the
\* lookup itself failed; no step of getVKData changes the store.
C15_ProfileQuery ==
    [][\A p \in Procs :
        /\ (FirstFree(p) /\ queries' # queries /\ requestUser'[p] = 0) =>
              /\ pc'[p] = "done"
              /\ res'[p].view = "error"
              /\ trace'[p] = <<>>
              /\ store' = store
        /\ (FirstFree(p) /\ queries' # queries /\ requestUser'[p] # 0) =>
              /\ pc'[p] = "vkFirst"
              /\ store' = store
        /\ (pc[p] = "vkFirst" /\ pc'[p] # pc[p] /\ LinksOf(requestUser[p]) = {}) =>
              /\ pc'[p] = "done"
              /\ NotLinked(p)'
              /\ "getVKUserDetails" \notin Range(trace'[p])
              /\ store' = store
        /\ (pc[p] = "vkFirst" /\ pc'[p] # pc[p] /\ LinksOf(requestUser[p]) # {}) =>
              /\ store' = store
              /\ \/ /\ pc'[p] = "vkDetails"
                    /\ "getVKUserDetails" \in Range(trace'[p])
                    /\ \E i \in LinksOf(requestUser[p]) :
                          /\ \A j \in LinksOf(requestUser[p]) : i <= j
                          /\ accessToken'[p] = tokenStorage[i].accessToken
                 \/ /\ pc'[p] = "done"
                    /\ NotLinked(p)'
                    /\ res'[p].errorMessage # "No VK data found."
        /\ (pc[p] = "vkDetails" /\ pc'[p] # pc[p]) => store' = store]_vars

C15_Witness ==
    \E p \in Procs :
        /\ handler[p] = "getVKData"
        /\ pc[p] = "vkDetails"
        /\ LinksOf(requestUser[p]) # {}
        /\ accessToken[p] \in AccessTokens
        /\ users = 1

IsPrefix(s, t) == Len(s) <= Len(t) /\ \A i \in 1..Len(s) : s[i] = t[i]

\* C16: the operations of a callback follow the order lookup, destroy, token
\* call, profile call, upsert, render; once a callback has issued a provider
\* call its TokenRequest is out of the store, and the state of a finished
\* callback that passed the destroy never is in the store again.
C16_StepOrder ==
    /\ \A p \in Procs :
          handler[p] = "/oauthCallback" =>
              /\ IsPrefix(trace[p], FoundRun) \/ IsPrefix(trace[p], CreatedRun)
              /\ Range(trace[p]) \cap ProviderCalls # {} =>
                    data[p].state \notin tokenRequests
    /\ \A s \in destroyedDone : s \notin tokenRequests

C16_Witness ==
    \E p \in Procs :
        /\ handler[p] = "/oauthCallback"
        /\ pc[p] = "done"
        /\ res[p].view = "error"
        /\ failedAt[p] = "tsSave"
        /\ data[p].state = "S1"
        /\ tokenRequests = {"S2"}

Count(s, op) == Cardinality({i \in 1..Len(s) : s[i] = op})

\* C17: one callback enters upsertVKUser at most twice and issues at most
\* two link queries, enters newVKUser at most once (the re-run after the
\* link was saved finds a link), and creates at most one Account and one
\* link.
C17_SingleRerun ==
    \A p \in Procs :
        handler[p] = "/oauthCallback" =>
            /\ Count(trace[p], "upsertVKUser") <= 2
            /\ Count(trace[p], "first") <= 2
            /\ Count(trace[p], "newVKUser") <= 1
            /\ Count(trace[p], "signUp") <= 1
            /\ Count(trace[p], "tsSave") <= 1
            /\ (pc[p] = "first" /\ "tsSave" \in Range(trace[p])) =>
                  Count(trace[p], "upsertVKUser") = 2
            /\ (pc[p] \in {"signUp", "tsSave"}) => Count(trace[p], "upsertVKUser") = 1

C17_Witness ==
    \E p \in Procs :
        /\ raced[p]
        /\ pc[p] = "done"
        /\ trace[p] = CreatedRun
        /\ Len(tokenStorage) = 2

\* C18 as stated: a finished callback whose state is non-empty and was never
\* issued ended in InvalidOrExpiredState, called no provider and created
\* nothing.
C18_ForgedState ==
    \A p \in Procs :
        (/\ handler[p] = "/oauthCallback"
         /\ pc[p] = "done"
         /\ Present(data[p].state)
         /\ data[p].state \notin IssuedIds) =>
            InvalidOrExpiredState(p) /\ Quiet(p)

\* C18 amended: a callback that carries a code, and whose state is not the
\* id of a TokenRequest of the store when it is looked up, ends at the
\* lookup in InvalidOrExpiredState, has called no provider, and leaves the
\* TokenRequest, User and TokenStorage objects as they were.
C18_ForgedStateWithCode ==
    [][\A p \in Procs :
        (/\ pc[p] = "get"
         /\ pc'[p] # pc[p]
         /\ data[p].state \notin tokenRequests) =>
            /\ CodeAndState(data[p])
            /\ pc'[p] = "done"
            /\ InvalidOrExpiredState(p)'
            /\ Quiet(p)'
            /\ trace'[p] = <<>>
            /\ store' = store]_vars

C18_Witness ==
    \E p \in Procs :
        /\ pc[p] = "done"
        /\ data[p] = [code |-> "c1", state |-> "forged"]
        /\ failedAt[p] = "get"
        /\ res[p].errorMessage =
              "{\"code\":101,\"message\":\"object not found for get\"}"
        /\ tokenRequests = {"S1"}

StoredKeys == {tokenStorage[i].vkId : i \in 1..Len(tokenStorage)}

\* C19: no step deletes a link or changes the external id, the Account or
\* the position in creation order of a link, so the oldest link of an
\* external id that has one stays the same; all sessions rendered by
\* upserts for one external id are sessions of one Account.
C19_LinkStability ==
    [][/\ Len(tokenStorage') >= Len(tokenStorage)
       /\ \A i \in 1..Len(tokenStorage) :
             /\ tokenStorage'[i].vkId = tokenStorage[i].vkId
             /\ tokenStorage'[i].user = tokenStorage[i].user
       /\ \A id \in StoredKeys : CanonicalLink(id)' = CanonicalLink(id)
       /\ \A a, b \in returned' : a[2] = b[2] => a[3] = b[3]]_vars

C19_Witness ==
    /\ Len(tokenStorage) = 2
    /\ tokenStorage[1].vkId = tokenStorage[2].vkId
    /\ tokenStorage[1].updates > 0
    /\ \E a \in returned : a[3] = tokenStorage[1].user
    /\ \A p \in Procs : pc[p] = "done" /\ res[p].view = "store_auth"

\* C20: when every pending operation completes, a callback that passed the
\* input check eventually has rendered exactly one response, the session
\* page or the error page.
C20_ResponseLiveness ==
    \A p \in Procs :
        (handler[p] = "/oauthCallback" /\ pc[p] = "get") ~>
            (pc[p] = "done" /\ res[p].count = 1
                            /\ res[p].view \in {"store_auth", "error"})

====
